---------------------------- MODULE Spec2Model ----------------------------
(***************************************************************************)
(* Model of the rendering engine BaseRendererPlugin: the variable          *)
(* collectors and the template, the block and annotation transformer       *)
(* registries, processBlock / processChildren / processRichText and the    *)
(* process() pipeline stage.                                               *)
(*                                                                         *)
(* Text is modelled as a sequence of one-character strings, so that        *)
(* concatenation, substring search and the placeholder regular expression  *)
(* are computed, not assumed.                                              *)
(***************************************************************************)
EXTENDS Integers, Sequences, FiniteSets, TLC

(***************************************************************************)
(* Text helpers (JavaScript string operations used by the engine).         *)
(***************************************************************************)
Range(s) == { s[i] : i \in DOMAIN s }

\* s.substring(i-1, i-1+n), clipped to the end of s
Slice(s, i, n) == SubSeq(s, i, IF i + n - 1 > Len(s) THEN Len(s) ELSE i + n - 1)

\* whether sub occurs in s starting at position i (1-based)
StartsAt(s, sub, i) == i >= 1 /\ i + Len(sub) - 1 <= Len(s) /\ Slice(s, i, Len(sub)) = sub

\* String.prototype.includes
Includes(s, sub) == \E i \in 1..(Len(s) + 1) : StartsAt(s, sub, i)

RECURSIVE Join(_, _)
\* Array.prototype.join(sep)
Join(list, sep) ==
  IF list = <<>> THEN <<>>
  ELSE IF Len(list) = 1 THEN list[1]
  ELSE list[1] \o sep \o Join(Tail(list), sep)

\* \w of the placeholder regular expression
WordChars ==
  { "a","b","c","d","e","f","g","h","i","j","k","l","m","n","o","p","q","r","s","t",
    "u","v","w","x","y","z","A","B","C","D","E","F","G","H","I","J","K","L","M","N",
    "O","P","Q","R","<<",">>T","U","V","W","X","Y","Z","0","1","2","3","4","5","6","7",
    "8","9","_" }

LBRACES == <<"{","{","{">>
RBRACES == <<"}","}","}">>
NL == <<"\n">>

RECURSIVE WordRun(_, _)
\* length of the maximal run of \w characters of s starting at position i
WordRun(s, i) == IF i <= Len(s) /\ s[i] \in WordChars THEN 1 + WordRun(s, i + 1) ELSE 0

\* length of the match of /{{{(\w+)}}}/ at position i of s, 0 when there is none
PlaceholderAt(s, i) ==
  IF ~StartsAt(s, LBRACES, i) THEN 0
  ELSE LET w == WordRun(s, i + 3)
       IN IF w >= 1 /\ StartsAt(s, RBRACES, i + 3 + w) THEN w + 6 ELSE 0

RECURSIVE MatchAllFrom(_, _)
\* template.match(/{{{(\w+)}}}/g) || [] : the matched substrings, left to right
MatchAllFrom(s, i) ==
  IF i > Len(s) THEN <<>>
  ELSE LET n == PlaceholderAt(s, i)
       IN IF n = 0 THEN MatchAllFrom(s, i + 1)
          ELSE <<Slice(s, i, n)>> \o MatchAllFrom(s, i + n)

MatchAll(s) == MatchAllFrom(s, 1)

RECURSIVE FirstBraces(_, _)
\* position of the leftmost match of /{{{|}}}/ in s at or after i, 0 when none
FirstBraces(s, i) ==
  IF i + 2 > Len(s) THEN 0
  ELSE IF StartsAt(s, LBRACES, i) \/ StartsAt(s, RBRACES, i) THEN i
  ELSE FirstBraces(s, i + 1)

\* variable.replace(/{{{|}}}/, ''): the pattern has no g flag, so only the
\* leftmost match is removed
ReplaceFirstBraces(s) ==
  LET p == FirstBraces(s, 1)
  IN IF p = 0 THEN s ELSE SubSeq(s, 1, p - 1) \o SubSeq(s, p + 3, Len(s))


(***************************************************************************)
(* Variable registry: collectors, resolvers, template.                     *)
(***************************************************************************)
content == <<"c","o","n","t","e","n","t">>
imports == <<"i","m","p","o","r","t","s">>

\* Map.prototype.set
MapSet(m, k, v) == [x \in DOMAIN m \cup {k} |-> IF x = k THEN v ELSE m[x]]

\* variableDataCollector.get(name) || []
Collected(coll, name) == IF name \in DOMAIN coll THEN coll[name] ELSE <<>>

\* addVariable, the collector part: an empty collector is created if absent
addVariable(coll, name) == IF name \in DOMAIN coll THEN coll ELSE MapSet(coll, name, <<>>)

\* addVariable, the resolver part: a supplied resolver replaces the registered one
NoResolver == "undefined"
addResolver(res, name, resolver) ==
  IF resolver = NoResolver THEN res ELSE MapSet(res, name, resolver)

\* A collector entry is [text, by, via]: text is the string the engine
\* stores; by names the producer (<<0>> for a direct addImports call,
\* <<call>> \o path for a block of a process() call) and via the method that
\* pushed it.  The engine reads text only.
Entry(text, by, via) == [text |-> text, by |-> by, via |-> via]
Texts(list) == [i \in DOMAIN list |-> list[i].text]
Direct == <<0>>

RECURSIVE PushEach(_, _, _)
\* imports.forEach(imp => { if (!importCollector.includes(imp)) importCollector.push(imp) })
PushEach(importCollector, imps, by) ==
  IF imps = <<>> THEN importCollector
  ELSE PushEach(IF Head(imps) \in Range(Texts(importCollector))
                  THEN importCollector
                  ELSE Append(importCollector, Entry(Head(imps), by, "addImports")),
                Tail(imps), by)

\* addImports without the includes() test
addImportsUnchecked(coll, imps, by) ==
  MapSet(coll, imports,
         Collected(coll, imports) \o [i \in DOMAIN imps |-> Entry(imps[i], by, "addImports")])

addImports(coll, imps, by) ==
  MapSet(coll, imports, PushEach(Collected(coll, imports), imps, by))

\* addToCollector: the collector is created if needed, the fragment is pushed
addToCollector(coll, variable, fragment, by) ==
  MapSet(coll, variable, Append(Collected(coll, variable), Entry(fragment, by, "addToCollector")))

\* resetCollectors that keeps every collector as it is
resetCollectorsKeep(coll) == coll

\* resetCollectors: every collector is emptied, imports keeps its list
resetCollectors(coll) ==
  [name \in DOMAIN coll |-> IF name = imports THEN Collected(coll, imports) ELSE <<>>]

\* initializeDefaultVariables: imports, then content, both with the default resolver
DefaultResolver == "default"
initializeDefaultCollectors(coll) == addVariable(addVariable(coll, imports), content)
initializeDefaultResolvers(res) ==
  addResolver(addResolver(res, imports, DefaultResolver), content, DefaultResolver)

\* validateTemplate: the message of the error it throws, <<>> when it returns
MustContain(name) == <<"T","e","m","p","l","a","t","e"," ","m","u","s","t"," ","c","o","n","t","a","i","n"," ">> \o name \o <<" ","v","a","r","i","a","b","l","e">>
validateTemplate(t) ==
  IF ~Includes(t, LBRACES \o content \o RBRACES) THEN MustContain(content)
  ELSE IF ~Includes(t, LBRACES \o imports \o RBRACES) THEN MustContain(imports)
  ELSE <<>>

RECURSIVE AddVariables(_, _)
AddVariables(coll, variables) ==
  IF variables = <<>> THEN coll
  ELSE AddVariables(addVariable(coll, ReplaceFirstBraces(Head(variables))), Tail(variables))

\* initializeTemplateVariables: every placeholder match is registered under
\* the name the replace() call leaves
initializeTemplateVariables(t, coll) == AddVariables(coll, MatchAll(t))

\* setTemplate that assigns the template before it validates it
setTemplateAssignFirst(tpl, coll, t) ==
  [err |-> validateTemplate(t),
   template |-> t,
   coll |-> IF validateTemplate(t) = <<>> THEN initializeTemplateVariables(t, coll) ELSE coll]

\* setTemplate(t) applied to an engine state: the error message (<<>> on
\* success) and the template and collectors after the call
setTemplate(tpl, coll, t) ==
  LET err == validateTemplate(t)
  IN IF err # <<>>
       THEN [err |-> err, template |-> tpl, coll |-> coll]
       ELSE [err |-> <<>>, template |-> t, coll |-> initializeTemplateVariables(t, coll)]


(***************************************************************************)
(* Metadata maps (ContextMetadata): functions from keys to values.  An     *)
(* undefined metadata argument spreads to nothing, like the empty map.     *)
(***************************************************************************)
NoMeta == <<>>

\* { ...base, ...over }
Overlay(base, over) ==
  [k \in DOMAIN base \cup DOMAIN over |-> IF k \in DOMAIN over THEN over[k] ELSE base[k]]

\* metadata?.html
IsHtml(meta) == "html" \in DOMAIN meta /\ meta["html"] = TRUE

(***************************************************************************)
(* Annotation transformers of the MDX plugin, by registered name.          *)
(***************************************************************************)
BoldTransform(text, meta) ==
  IF ~IsHtml(meta) THEN <<"*","*">> \o text \o <<"*","*">> ELSE <<"<","s","t","r","o","n","g",">">> \o text \o <<"<","/","s","t","r","o","n","g",">">>

ItalicTransform(text, meta) ==
  IF ~IsHtml(meta) THEN <<"*">> \o text \o <<"*">> ELSE <<"<","i",">">> \o text \o <<"<","/","i",">">>

StrikethroughTransform(text, meta) ==
  IF ~IsHtml(meta) THEN <<"~","~">> \o text \o <<"~","~">> ELSE <<"<","s","t","r","i","k","e",">">> \o text \o <<"<","/","s","t","r","i","k","e",">">>

\* the link transformer; url = <<>> stands for an absent link
LinkTransform(text, url, meta) ==
  IF url = <<>> THEN text
  ELSE IF ~IsHtml(meta) THEN <<"[">> \o text \o <<"]","(">> \o url \o <<")">>
  ELSE <<"<","a"," ","h","r","e","f","=","\"">> \o url \o <<"\"",">">> \o text \o <<"<","/","a",">">>

AnnotationNames == {"bold", "italic", "strikethrough", "link"}

\* annotations[name].transform({ text, annotations, metadata })
AnnotationTransform(name, text, meta) ==
  CASE name = "bold" -> BoldTransform(text, meta)
    [] name = "italic" -> ItalicTransform(text, meta)
    [] name = "strikethrough" -> StrikethroughTransform(text, meta)
    [] name = "link" -> LinkTransform(text, <<>>, meta)

(***************************************************************************)
(* processRichText.  A span is [plain_text, annotations, href]: annotations*)
(* is the sequence of the item's (name, value) entries in declaration      *)
(* order (Object.entries), href = <<>> stands for null.                    *)
(***************************************************************************)
RECURSIVE Cascade(_, _, _, _)
\* the loop over Object.entries(item.annotations)
Cascade(text, entries, meta, registered) ==
  IF entries = <<>> THEN text
  ELSE LET e == Head(entries)
       IN Cascade(IF e.value /\ e.name \in registered
                    THEN AnnotationTransform(e.name, text, meta)
                    ELSE text,
                  Tail(entries), meta, registered)

\* reading .transform of an unregistered (undefined) link transformer
LinkTypeError == <<"C","a","n","n","o","t"," ","r","e","a","d"," ","p","r","o","p","e","r","t","i","e","s"," ","o","f"," ","u","n","d","e","f","i","n","e","d"," ","(","r","e","a","d","i","n","g"," ","'","t","r","a","n","s","f","o","r","m","'",")">>

\* LinkThrows with the link step guarded by a lookup, so that it is skipped
\* when no link transformer is registered
LinkStepSkipped(item, registered) == FALSE

\* whether the link step of a span is taken and finds no transformer
LinkThrows(item, registered) == item.href # <<>> /\ "link" \notin registered

\* "Apply link transformation last if exists": the link transformer gets
\* the text and the link, and no metadata
ApplyLink(text, item) ==
  IF item.href # <<>> THEN LinkTransform(text, item.href, NoMeta) ELSE text

\* SpanText with the link applied to the plain text, before the flags
SpanTextLinkFirst(item, meta, registered) ==
  Cascade(ApplyLink(item.plain_text, item), item.annotations, meta, registered)

\* the text one span maps to (when its link step does not throw)
SpanText(item, meta, registered) ==
  ApplyLink(Cascade(item.plain_text, item.annotations, meta, registered), item)

\* processRichText: [err, text]; err = <<>> when the promise resolves
processRichText(richText, meta, registered) ==
  IF \E i \in DOMAIN richText : LinkThrows(richText[i], registered)
    THEN [err |-> LinkTypeError, text |-> <<>>]
    ELSE [err |-> <<>>,
          text |-> Join([i \in DOMAIN richText |-> SpanText(richText[i], meta, registered)], <<>>)]


(***************************************************************************)
(* Block transformers.  A transformer is [kind, imports, targetVariable];  *)
(* kind names what its transform does:                                     *)
(*   "text"     returns processRichText(block.rich_text, context.metadata) *)
(*   "fixed"    returns a fixed markup                                     *)
(*   "children" returns its text, a newline and                            *)
(*              processChildren(block.children, ChildMeta)                 *)
(*   "throw"    raises Error(ThrownText)                                   *)
(* targetVariable = <<>> stands for an undeclared target.                  *)
(***************************************************************************)
paragraph == <<"p","a","r","a","g","r","a","p","h">>
image == <<"i","m","a","g","e">>
toggle == <<"t","o","g","g","l","e">>
divider == <<"d","i","v","i","d","e","r">>
toc == <<"t","o","c">>

ImageImport == <<"i","m","p","o","r","t"," ","I","m","g">>
FixedMarkup == <<"<","I","m","g","/",">">>
ThrownText == <<"b","o","o","m">>
ChildMeta == [nested |-> TRUE]

TextTr == [kind |-> "text", imports |-> <<>>, targetVariable |-> <<>>]
ImageTr == [kind |-> "fixed", imports |-> <<ImageImport, ImageImport>>, targetVariable |-> <<>>]
ToggleTr == [kind |-> "children", imports |-> <<>>, targetVariable |-> <<>>]
ThrowTr == [kind |-> "throw", imports |-> <<ImageImport>>, targetVariable |-> <<>>]
TocTr == [kind |-> "text", imports |-> <<>>, targetVariable |-> toc]
ImportsTr == [kind |-> "fixed", imports |-> <<>>, targetVariable |-> imports]

\* the maps createBlockTransformers is called with
Registrations ==
  { [t \in {paragraph, image, toggle} |->
       IF t = paragraph THEN TextTr ELSE IF t = image THEN ImageTr ELSE ToggleTr],
    [t \in {paragraph} |-> ThrowTr],
    [t \in {paragraph, image} |-> IF t = paragraph THEN TocTr ELSE ImportsTr] }

(***************************************************************************)
(* Input documents (ChainData).                                            *)
(***************************************************************************)
Flags(b, i, s) ==
  << [name |-> "bold", value |-> b], [name |-> "italic", value |-> i],
     [name |-> "strikethrough", value |-> s] >>
\* the same item with strikethrough declared before bold
FlagsRev(b, i, s) ==
  << [name |-> "strikethrough", value |-> s], [name |-> "italic", value |-> i],
     [name |-> "bold", value |-> b] >>

Url == <<"u">>
SpanHello == [plain_text |-> <<"H","e","l","l","o">>, annotations |-> Flags(TRUE, FALSE, TRUE), href |-> Url]
SpanRev == [plain_text |-> <<"x">>, annotations |-> FlagsRev(TRUE, FALSE, TRUE), href |-> <<>>]
SpanLinked == [plain_text |-> <<"y">>, annotations |-> Flags(TRUE, TRUE, FALSE), href |-> Url]
SpanPlain == [plain_text |-> <<"{","{","{","i","m","p","o","r","t","s","}","}","}","z">>, annotations |-> Flags(FALSE, FALSE, FALSE), href |-> <<>>]
SpanBold == [plain_text |-> <<"T">>, annotations |-> Flags(TRUE, FALSE, FALSE), href |-> <<>>]

Block(type, richText, children) ==
  [type |-> type, rich_text |-> richText, children |-> children]

DocA ==
  [pageId |-> <<"A">>,
   blockTree |-> [blocks |-> << Block(paragraph, <<SpanHello>>, <<>>),
                               Block(image, <<>>, <<>>) >>,
                  properties |-> <<>>],
   metadata |-> [site |-> 1],
   content |-> <<>>]

DocB ==
  [pageId |-> <<"B">>,
   blockTree |-> [blocks |-> << Block(toggle, <<SpanBold>>,
                                     << Block(paragraph, <<SpanRev, SpanLinked>>, <<>>),
                                        Block(image, <<>>, <<>>),
                                        Block(divider, <<>>, <<>>) >>) >>,
                  properties |-> <<>>],
   metadata |-> [html |-> TRUE, nested |-> FALSE],
   content |-> <<"o","l","d">>]

DocC ==
  [pageId |-> <<"C">>,
   blockTree |-> [blocks |-> << Block(divider, <<>>, <<>>),
                               Block(paragraph, <<SpanPlain>>, <<>>),
                               Block(image, <<>>, <<>>) >>,
                  properties |-> <<>>],
   metadata |-> [site |-> 2],
   content |-> <<>>]

Documents == {DocA, DocB, DocC}

\* the tasks of a document: <<i>> is top-level block i, <<i, j>> its child j
TopPaths(d) == { <<i>> : i \in DOMAIN d.blockTree.blocks }
ChildPaths(d, i) == { <<i, j>> : j \in DOMAIN d.blockTree.blocks[i].children }
Paths(d) == TopPaths(d) \cup UNION { ChildPaths(d, i) : i \in DOMAIN d.blockTree.blocks }

BlockAt(d, path) ==
  IF Len(path) = 1 THEN d.blockTree.blocks[path[1]]
  ELSE d.blockTree.blocks[path[1]].children[path[2]]


(***************************************************************************)
(* Engine state.                                                           *)
(***************************************************************************)
NCalls == 2
CallIds == 1..NCalls

VARIABLES
  template,                \* this.template
  variableDataCollector,   \* name -> sequence of entries
  variableResolvers,       \* name -> resolver
  context,                 \* pageId, pageProperties, blockTree, metadata
  blockTransformers,       \* context.transformers.blocks: type -> transformer
  annotationTransformers,  \* names registered in context.transformers.annotations
  next,                    \* whether a next chain node is set
  pc,                      \* per process() call: idle, blocks, render, done, failed
  data,                    \* per call: the ChainData it was given
  tasks,                   \* per call: path -> processBlock invocation
  result,                  \* per call: the promise process() returned
  nextLog,                 \* the records handed to next.process, in order
  lastSetTemplate,         \* the latest template validation: its argument and the
                           \* message of the error it threw, <<>> when it returned
  configured               \* the number of configuration calls made so far

vars ==
  << template, variableDataCollector, variableResolvers, context, blockTransformers,
     annotationTransformers, next, pc, data, tasks, result, nextLog, lastSetTemplate, configured >>

engine ==
  << template, variableDataCollector, variableResolvers, context, blockTransformers,
     annotationTransformers, next >>
calls == << pc, data, tasks, result, nextLog >>

DefaultTemplate == <<"{","{","{","i","m","p","o","r","t","s","}","}","}","\n","{","{","{","c","o","n","t","e","n","t","}","}","}">>

NoData == [pageId |-> <<>>, blockTree |-> [blocks |-> <<>>, properties |-> <<>>],
           metadata |-> NoMeta, content |-> <<>>]
Unsettled == [status |-> "none", value |-> <<>>]

\* the constructor: the context defaults, initializeDefaultVariables, then
\* validateAndInitializeTemplate on the built-in template
Init ==
  /\ template = DefaultTemplate
  /\ variableDataCollector =
       initializeTemplateVariables(DefaultTemplate,
         initializeDefaultCollectors(initializeDefaultCollectors(<<>>)))
  /\ variableResolvers = initializeDefaultResolvers(initializeDefaultResolvers(<<>>))
  /\ context = [pageId |-> <<>>, pageProperties |-> <<>>, blockTree |-> <<>>,
                metadata |-> NoMeta]
  /\ blockTransformers = <<>>
  /\ annotationTransformers = {}
  /\ next = FALSE
  /\ pc = [c \in CallIds |-> "idle"]
  /\ data = [c \in CallIds |-> NoData]
  /\ tasks = [c \in CallIds |-> <<>>]
  /\ result = [c \in CallIds |-> Unsettled]
  /\ nextLog = <<>>
  /\ lastSetTemplate = [n |-> 0, arg |-> DefaultTemplate, err |-> validateTemplate(DefaultTemplate)]
  /\ configured = 0

\* no process() call is between its start and its settlement
Quiet == \A c \in CallIds : pc[c] \notin {"blocks", "render"}

\* a configuration call is made: between process() calls, MaxConfig of them
MaxConfig == 2
Configure ==
  /\ Quiet
  /\ configured < MaxConfig
  /\ configured' = configured + 1

\* a registration call is made: registrations precede the first process() call
Register ==
  /\ Configure
  /\ \A c \in CallIds : pc[c] = "idle"


(***************************************************************************)
(* The configuration methods.  They are called while no process() call is  *)
(* in flight.                                                              *)
(***************************************************************************)
MetadataInputs == { <<"site", 3>> }

AddMetadata(k, v) ==
  /\ Configure
  /\ context' = [context EXCEPT !.metadata = Overlay(@, [x \in {k} |-> v])]
  /\ UNCHANGED << template, variableDataCollector, variableResolvers, blockTransformers,
                  annotationTransformers, next, calls, lastSetTemplate >>

VariableInputs == { <<toc, "custom">>, <<toc, "failing">> }

AddVariable(name, resolver) ==
  /\ Register
  /\ variableDataCollector' = addVariable(variableDataCollector, name)
  /\ variableResolvers' = addResolver(variableResolvers, name, resolver)
  /\ UNCHANGED << template, context, blockTransformers, annotationTransformers, next, calls, lastSetTemplate >>

ImportInputs == { <<ImageImport>>, <<<<"i","m","p","o","r","t"," ","A">>, <<"i","m","p","o","r","t"," ","A">>>> }

AddImports(imps) ==
  /\ Configure
  /\ variableDataCollector' = addImports(variableDataCollector, imps, Direct)
  /\ UNCHANGED << template, variableResolvers, context, blockTransformers,
                  annotationTransformers, next, calls, lastSetTemplate >>

TemplateInputs ==
  { <<"{","{","{","t","o","c","}","}","}","\n","{","{","{","i","m","p","o","r","t","s","}","}","}","\n","{","{","{","c","o","n","t","e","n","t","}","}","}">>,
    <<"{","{","{","i","m","p","o","r","t","s","}","}","}","{","{","{","c","o","n","t","e","n","t","}","}","}","{","{","{","c","o","n","s","t","r","u","c","t","o","r","}","}","}">>,
    <<"{","{","{","t","o","c","}","}","}","{","{","{","c","o","n","t","e","n","t","}","}","}">>,
    <<"{","{","i","m","p","o","r","t","s","}","}"," ","{","{","{","i","m","p","o","r","t","s","}","}","}">> }

SetTemplate(t) ==
  /\ Configure
  /\ LET r == setTemplate(template, variableDataCollector, t)
     IN /\ template' = r.template
        /\ variableDataCollector' = r.coll
        /\ lastSetTemplate' = [n |-> configured', arg |-> t, err |-> r.err]
  /\ UNCHANGED << variableResolvers, context, blockTransformers, annotationTransformers,
                  next, calls >>

\* createBlockTransformers: one createBlockTransformer per entry, each
\* inserting or overwriting the transformer of its type
CreateBlockTransformers(transformers) ==
  /\ Register
  /\ blockTransformers' = Overlay(blockTransformers, transformers)
  /\ UNCHANGED << template, variableDataCollector, variableResolvers, context,
                  annotationTransformers, next, calls, lastSetTemplate >>

AnnotationInputs == { {"bold", "italic", "strikethrough"}, {"bold", "italic", "strikethrough", "link"} }

\* the bulk form: one createAnnotationTransformer per entry
CreateAnnotationTransformers(names) ==
  /\ Register
  /\ annotationTransformers' = annotationTransformers \cup names
  /\ UNCHANGED << template, variableDataCollector, variableResolvers, context,
                  blockTransformers, next, calls, lastSetTemplate >>

\* the caller links a next chain node
SetNext ==
  /\ Register
  /\ ~next
  /\ next' = TRUE
  /\ UNCHANGED << template, variableDataCollector, variableResolvers, context,
                  blockTransformers, annotationTransformers, calls, lastSetTemplate >>


(***************************************************************************)
(* processBlock.  A task is one processBlock invocation: st is pending     *)
(* (not called yet), running (suspended in await transformer.transform),   *)
(* done (returned out) or failed (threw the message in err).  While        *)
(* running, out and err hold what the transform is going to return or      *)
(* raise; tr is the transformer looked up at the call and meta the         *)
(* metadata of the blockContext handed to it.                              *)
(***************************************************************************)
NoTr == [kind |-> "none", imports |-> <<>>, targetVariable |-> <<>>]
Task(st, out, err, tr, meta) == [st |-> st, out |-> out, err |-> err, tr |-> tr, meta |-> meta]
Pending == Task("pending", <<>>, <<>>, NoTr, NoMeta)

\* the overlay the other way round: { ...metadata, ...this.context.metadata }
BlockContextMetadataEngineWins(ctx, metadata) == Overlay(metadata, ctx.metadata)

\* the blockContext metadata: { ...this.context.metadata, ...metadata }
BlockContextMetadata(ctx, metadata) == Overlay(ctx.metadata, metadata)

\* SkipBlock with a fallback: the block is handed to a pass-through
\* transformer instead of being skipped
SkipBlockFallback == Task("running", <<>>, <<>>, TextTr, NoMeta)

\* processBlock(block) when no transformer is registered for its type:
\* it returns '' and touches nothing
SkipBlock == Task("done", <<>>, <<>>, NoTr, NoMeta)

\* the transform call of a block: what it will return or raise
Transforming(block, transformer, meta) ==
  LET rich == processRichText(block.rich_text, meta, annotationTransformers)
  IN CASE transformer.kind = "text" -> Task("running", rich.text, rich.err, transformer, meta)
       [] transformer.kind = "children" -> Task("running", rich.text, rich.err, transformer, meta)
       [] transformer.kind = "fixed" -> Task("running", FixedMarkup, <<>>, transformer, meta)
       [] transformer.kind = "throw" -> Task("running", <<>>, ThrownText, transformer, meta)

\* processBlock(block, metadata) up to its await
EnterBlock(ctx, block, metadata) ==
  IF block.type \notin DOMAIN blockTransformers
    THEN SkipBlock
    ELSE Transforming(block, blockTransformers[block.type],
                      BlockContextMetadata(ctx, metadata))

\* processChildren(block.children, ChildMeta): blocks.map(processBlock) enters
\* every child before any of them is awaited
EnterChildren(ts, ctx, d, path) ==
  [p \in DOMAIN ts |->
     IF p \in ChildPaths(d, path[1]) THEN EnterBlock(ctx, BlockAt(d, p), ChildMeta) ELSE ts[p]]

\* a processBlock call and, for a transformer that processes the block's
\* children, the processBlock calls of the children
BeginBlock(ts, ctx, d, path, metadata) ==
  LET task == EnterBlock(ctx, BlockAt(d, path), metadata)
      entered == [ts EXCEPT ![path] = task]
  IN IF task.st = "running" /\ task.tr.kind = "children" /\ task.err = <<>> /\ Len(path) = 1
       THEN EnterChildren(entered, ctx, d, path)
       ELSE entered

Kids(d, path) == IF Len(path) = 1 THEN ChildPaths(d, path[1]) ELSE {}

\* results.filter(Boolean).join('\n') over the children in input order
RECURSIVE NonEmpty(_)
NonEmpty(list) ==
  IF list = <<>> THEN <<>>
  ELSE IF Head(list) = <<>> THEN NonEmpty(Tail(list))
  ELSE <<Head(list)>> \o NonEmpty(Tail(list))

\* processChildren without filter(Boolean)
processChildrenUnfiltered(ts, d, path) ==
  Join([j \in DOMAIN BlockAt(d, path).children |-> ts[<<path[1], j>>].out], NL)

processChildren(ts, d, path) ==
  Join(NonEmpty([j \in DOMAIN BlockAt(d, path).children |-> ts[<<path[1], j>>].out]), NL)

\* whether the transform of a running task can settle: a transformer that
\* awaits processChildren settles once Promise.all has settled
CanSettle(ts, d, path) ==
  /\ ts[path].st = "running"
  /\ \/ ts[path].tr.kind # "children"
     \/ ts[path].err # <<>>
     \/ \A k \in Kids(d, path) : ts[k].st = "done"
     \/ \E k \in Kids(d, path) : ts[k].st = "failed"

\* what the transform raises (<<>> when it returns)
TransformError(ts, d, path) ==
  IF ts[path].err # <<>> THEN ts[path].err
  ELSE IF ts[path].tr.kind = "children" /\ \E k \in Kids(d, path) : ts[k].st = "failed"
    THEN ts[CHOOSE k \in Kids(d, path) : ts[k].st = "failed"].err
  ELSE <<>>

\* what the transform returns
TransformOutput(ts, d, path) ==
  IF ts[path].tr.kind = "children"
    THEN ts[path].out \o NL \o processChildren(ts, d, path)
    ELSE ts[path].out

\* the message of the error processBlock throws from its catch block
BlockError(blockType, message) == <<"F","a","i","l","e","d"," ","t","o"," ","p","r","o","c","e","s","s"," ","b","l","o","c","k",":"," ">> \o message

\* the collectors after processBlock has handled the output: addImports of
\* the transformer's imports, the target variable, addToCollector
Collect(coll, transformer, output, by) ==
  LET withImports == IF Len(transformer.imports) > 0
                       THEN addImports(coll, transformer.imports, by)
                       ELSE coll
      targetVariable == IF transformer.targetVariable # <<>>
                          THEN transformer.targetVariable
                          ELSE content
  IN addToCollector(addVariable(withImports, targetVariable), targetVariable, output, by)

\* FinishBlock with the transformer's imports added before the outcome of
\* the transform is known
FinishBlockImportsFirst(ts, coll, c, d, path) ==
  LET e == TransformError(ts, d, path)
      output == TransformOutput(ts, d, path)
      early == addImports(coll, ts[path].tr.imports, <<c>> \o path)
  IN IF e # <<>>
       THEN [tasks |-> [ts EXCEPT ![path].st = "failed",
                                  ![path].err = BlockError(BlockAt(d, path).type, e)],
             coll |-> early]
       ELSE [tasks |-> [ts EXCEPT ![path].st = "done", ![path].out = output],
             coll |-> Collect(early, ts[path].tr, output, <<c>> \o path)]

\* processBlock after its await: [tasks, coll]
FinishBlock(ts, coll, c, d, path) ==
  LET e == TransformError(ts, d, path)
      output == TransformOutput(ts, d, path)
  IN IF e # <<>>
       THEN [tasks |-> [ts EXCEPT ![path].st = "failed",
                                  ![path].err = BlockError(BlockAt(d, path).type, e)],
             coll |-> coll]
       ELSE [tasks |-> [ts EXCEPT ![path].st = "done", ![path].out = output],
             coll |-> Collect(coll, ts[path].tr, output, <<c>> \o path)]


(***************************************************************************)
(* renderTemplate.                                                         *)
(***************************************************************************)
ResolverFailure == <<"r","e","s","o","l","v","e","r"," ","f","a","i","l","e","d">>

\* Resolve with a default resolver that concatenates the fragments
ResolveConcat(resolver, name, coll, ctx) ==
  CASE resolver = "default" -> Join(Texts(Collected(coll, name)), <<>>)
    [] resolver = "custom" -> <<"<">> \o ctx.pageId \o <<">">>
    [] resolver = "failing" -> <<>>

\* the resolvers: the default one joins the collected fragments with
\* newlines; "custom" and "failing" stand for resolvers passed to addVariable
Resolve(resolver, name, coll, ctx) ==
  CASE resolver = "default" -> Join(Texts(Collected(coll, name)), NL)
    [] resolver = "custom" -> <<"<">> \o ctx.pageId \o <<">">>
    [] resolver = "failing" -> <<>>

ResolverOf(res, name) == IF name \in DOMAIN res THEN res[name] ELSE DefaultResolver

\* resolvedVariables is a plain object ({}): a name it has no own property
\* for is looked up in Object.prototype, where constructor is the function
\* Object; String.prototype.replace converts what the callback returns to a
\* string
ObjectPrototype ==
  [name \in {<<"c","o","n","s","t","r","u","c","t","o","r">>} |-> <<"f","u","n","c","t","i","o","n"," ","O","b","j","e","c","t","(",")"," ","{"," ","[","n","a","t","i","v","e"," ","c","o","d","e","]"," ","}">>]

\* resolvedVariables[name] || ''
Lookup(resolved, name) ==
  IF name \in DOMAIN resolved THEN resolved[name]
  ELSE IF name \in DOMAIN ObjectPrototype THEN ObjectPrototype[name]
  ELSE <<>>

RECURSIVE Substitute(_, _, _)
\* template.replace(/{{{(\w+)}}}/g, (_, name) => resolvedVariables[name] || '')
Substitute(s, i, resolved) ==
  IF i > Len(s) THEN <<>>
  ELSE LET n == PlaceholderAt(s, i)
           name == Slice(s, i + 3, n - 6)
       IN IF n = 0 THEN <<s[i]>> \o Substitute(s, i + 1, resolved)
          ELSE Lookup(resolved, name) \o Substitute(s, i + n, resolved)

\* renderTemplate: [err, text]
renderTemplate(tpl, coll, res, ctx) ==
  IF \E name \in DOMAIN coll : ResolverOf(res, name) = "failing"
    THEN [err |-> ResolverFailure, text |-> <<>>]
    ELSE [err |-> <<>>,
          text |-> Substitute(tpl, 1,
                     [name \in DOMAIN coll |-> Resolve(ResolverOf(res, name), name, coll, ctx)])]

(***************************************************************************)
(* process().                                                              *)
(***************************************************************************)
\* updateContext with the metadata replaced by the incoming one
updateContextReplace(ctx, d) ==
  [pageId |-> d.pageId,
   pageProperties |-> d.blockTree.properties,
   blockTree |-> d.blockTree.blocks,
   metadata |-> d.metadata]

updateContext(ctx, d) ==
  [pageId |-> d.pageId,
   pageProperties |-> d.blockTree.properties,
   blockTree |-> d.blockTree.blocks,
   metadata |-> Overlay(ctx.metadata, d.metadata)]

\* RendererError without the stage prefix
RendererErrorBare(message) == message

\* the message of the error process() rejects with
RendererError(message) == <<"R","e","n","d","e","r","e","r"," ","f","a","i","l","e","d",":"," ">> \o message

\* the next chain node: it returns the record with its own mark on content
NextProcess(d) == [d EXCEPT !.content = @ \o <<"<","!","-","-","n","e","x","t","-","-",">">>]

\* Updated without the spread of data: { content }
UpdatedContentOnly(d, text) == [NoData EXCEPT !.content = text]

\* data = { ...data, content }
Updated(d, text) == [d EXCEPT !.content = text]

\* return this.next ? this.next.process(data) : data
Returned(hasNext, d) == IF hasNext THEN NextProcess(d) ELSE d

TopIndices(d) == DOMAIN d.blockTree.blocks
NotDone(ts, d) == { i \in TopIndices(d) : ts[<<i>>].st # "done" }
Min(S) == CHOOSE x \in S : \A y \in S : x <= y

\* the loop as a fan-out: every top-level block not yet entered is entered
\* at once (blocks.map(processBlock) under Promise.all)
ToBeginAll(ts, d) == { i \in TopIndices(d) : ts[<<i>>].st = "pending" }

\* the loop going on past a block whose processBlock has thrown
ToBeginPastFailure(ts, d) ==
  LET open == { i \in TopIndices(d) : ts[<<i>>].st \notin {"done", "failed"} }
  IN IF open # {} /\ ts[<<Min(open)>>].st = "pending" THEN {Min(open)} ELSE {}

\* for (const block of blocks) { await this.processBlock(block) }: the
\* top-level blocks whose processBlock call the loop makes now, which is
\* the first block not yet processed, once every block before it has returned
ToBegin(ts, d) ==
  IF NotDone(ts, d) # {} /\ ts[<<Min(NotDone(ts, d))>>].st = "pending"
    THEN {Min(NotDone(ts, d))}
    ELSE {}

RECURSIVE Advance(_, _, _)
\* the loop runs until it is suspended in an await or has no block left
Advance(ts, ctx, d) ==
  IF ToBegin(ts, d) = {} THEN ts
  ELSE Advance(BeginBlock(ts, ctx, d, <<Min(ToBegin(ts, d))>>, NoMeta), ctx, d)

\* where process() stands after the loop has advanced
LoopPc(ts, d) ==
  IF \E i \in TopIndices(d) : ts[<<i>>].st = "failed" THEN "failed"
  ELSE IF NotDone(ts, d) = {} THEN "render"
  ELSE "blocks"

\* the rejection the catch block of process() produces for a failed block
LoopResult(ts, d) ==
  IF \E i \in TopIndices(d) : ts[<<i>>].st = "failed"
    THEN [status |-> "rejected",
          value |-> RendererError(ts[<<Min({ i \in TopIndices(d) : ts[<<i>>].st = "failed" })>>].err)]
    ELSE Unsettled

\* process(d) is called: updateContext, resetCollectors, then the loop up to
\* its first suspension.  Calls are serialized: each starts after the one
\* before it has settled.
ProcessStart(c, d) ==
  /\ pc[c] = "idle"
  /\ Quiet
  /\ \A b \in CallIds : b < c => pc[b] # "idle"
  /\ LET ctx == updateContext(context, d)
         ts == Advance([p \in Paths(d) |-> Pending], ctx, d)
     IN /\ context' = ctx
        /\ tasks' = [tasks EXCEPT ![c] = ts]
        /\ pc' = [pc EXCEPT ![c] = LoopPc(ts, d)]
        /\ result' = [result EXCEPT ![c] = LoopResult(ts, d)]
  /\ variableDataCollector' = resetCollectors(variableDataCollector)
  /\ data' = [data EXCEPT ![c] = d]
  /\ UNCHANGED << template, variableResolvers, blockTransformers, annotationTransformers,
                  next, nextLog, lastSetTemplate, configured >>

\* the transform of a running block settles and processBlock finishes; when
\* it is the block the loop of process() awaits, the loop goes on
Settle(c, path) ==
  /\ path \in DOMAIN tasks[c]
  /\ CanSettle(tasks[c], data[c], path)
  /\ LET fin == FinishBlock(tasks[c], variableDataCollector, c, data[c], path)
         awaited == Len(path) = 1 /\ pc[c] = "blocks"
         ts == IF awaited THEN Advance(fin.tasks, context, data[c]) ELSE fin.tasks
     IN /\ variableDataCollector' = fin.coll
        /\ tasks' = [tasks EXCEPT ![c] = ts]
        /\ pc' = IF awaited THEN [pc EXCEPT ![c] = LoopPc(ts, data[c])] ELSE pc
        /\ result' = IF awaited THEN [result EXCEPT ![c] = LoopResult(ts, data[c])] ELSE result
  /\ UNCHANGED << template, variableResolvers, context, blockTransformers,
                  annotationTransformers, next, data, nextLog, lastSetTemplate, configured >>

\* renderTemplate, the updated record, and the hand-over to the next node
Render(c) ==
  /\ pc[c] = "render"
  /\ LET r == renderTemplate(template, variableDataCollector, variableResolvers, context)
         updated == Updated(data[c], r.text)
     IN IF r.err # <<>>
          THEN /\ pc' = [pc EXCEPT ![c] = "failed"]
               /\ result' = [result EXCEPT ![c] =
                               [status |-> "rejected", value |-> RendererError(r.err)]]
               /\ nextLog' = nextLog
          ELSE /\ pc' = [pc EXCEPT ![c] = "done"]
               /\ result' = [result EXCEPT ![c] =
                               [status |-> "resolved",
                                value |-> Returned(next, updated)]]
               /\ nextLog' = IF next THEN Append(nextLog, updated) ELSE nextLog
  /\ UNCHANGED << engine, data, tasks, lastSetTemplate, configured >>

Next ==
  \/ \E m \in MetadataInputs : AddMetadata(m[1], m[2])
  \/ \E v \in VariableInputs : AddVariable(v[1], v[2])
  \/ \E imps \in ImportInputs : AddImports(imps)
  \/ \E t \in TemplateInputs : SetTemplate(t)
  \/ \E r \in Registrations : CreateBlockTransformers(r)
  \/ \E names \in AnnotationInputs : CreateAnnotationTransformers(names)
  \/ SetNext
  \/ \E c \in CallIds, d \in Documents : ProcessStart(c, d)
  \/ \E c \in CallIds : \E path \in DOMAIN tasks[c] : Settle(c, path)
  \/ \E c \in CallIds : Render(c)

Spec == Init /\ [][Next]_vars


(***************************************************************************)
(* Callers that do not serialize: process() is also called while one       *)
(* earlier call on the same instance is suspended in a transformer.  The   *)
(* engine is set up with its transformer registrations.                    *)
(***************************************************************************)
ProcessStartOverlapping(c, d) ==
  /\ pc[c] = "idle"
  /\ \E b \in CallIds :
       /\ pc[b] = "blocks"
       /\ \A a \in CallIds \ {b} : pc[a] \notin {"blocks", "render"}
  /\ \A b \in CallIds : b < c => pc[b] # "idle"
  /\ LET ctx == updateContext(context, d)
         ts == Advance([p \in Paths(d) |-> Pending], ctx, d)
     IN /\ context' = ctx
        /\ tasks' = [tasks EXCEPT ![c] = ts]
        /\ pc' = [pc EXCEPT ![c] = LoopPc(ts, d)]
        /\ result' = [result EXCEPT ![c] = LoopResult(ts, d)]
  /\ variableDataCollector' = resetCollectors(variableDataCollector)
  /\ data' = [data EXCEPT ![c] = d]
  /\ UNCHANGED << template, variableResolvers, blockTransformers, annotationTransformers,
                  next, nextLog, lastSetTemplate, configured >>

NextOverlap ==
  \/ \E r \in Registrations : CreateBlockTransformers(r)
  \/ \E names \in AnnotationInputs : CreateAnnotationTransformers(names)
  \/ \E c \in CallIds, d \in Documents : ProcessStart(c, d)
  \/ \E c \in CallIds : \E path \in DOMAIN tasks[c] : Settle(c, path)
  \/ \E c \in CallIds : Render(c)
  \/ \E c \in CallIds, d \in Documents : ProcessStartOverlapping(c, d)

SpecOverlap == Init /\ [][NextOverlap]_vars


(***************************************************************************)
(* Properties.                                                             *)
(***************************************************************************)
InFlight(c) == pc[c] \in {"blocks", "render"}
ImportsList == Collected(variableDataCollector, imports)
OtherCollectors == DOMAIN variableDataCollector \ {imports}
Registered(block) == block.type \in DOMAIN blockTransformers

\* C1: in serialized process() calls, while a call processes its blocks and
\* when it renders, every collector other than imports holds only fragments
\* produced by that call (the collectors were emptied at its start and no
\* earlier call writes to them), so the content it renders is its own.
C1_OnlyOwnFragments ==
  \A c \in CallIds : InFlight(c) =>
    \A name \in OtherCollectors :
      \A i \in DOMAIN variableDataCollector[name] :
        variableDataCollector[name][i].by[1] = c

\* The reset at the start of process(): the step that starts a call keeps
\* the registered names, leaves the imports collector as it was and empties
\* every other collector.
CollectorsResetAtStart ==
  [][ \A c \in CallIds : (pc[c] = "idle" /\ pc'[c] # "idle") =>
        /\ DOMAIN variableDataCollector' = DOMAIN variableDataCollector
        /\ variableDataCollector'[imports] = variableDataCollector[imports]
        /\ \A name \in DOMAIN variableDataCollector' \ {imports} :
             variableDataCollector'[name] = <<>>
    ]_vars

\* C2: when a block transformer raises during transform, process() rejects
\* with a message that contains the original error text and the type tag of
\* the failing block, and no result record is produced.
C2_ErrorNamesBlockType ==
  \A c \in CallIds : \A path \in DOMAIN tasks[c] :
    (/\ tasks[c][path].st = "failed"
     /\ tasks[c][path].tr.kind = "throw"
     /\ (Len(path) = 1 \/ tasks[c][<<path[1]>>].st = "failed")) =>
      /\ result[c].status = "rejected"
      /\ Includes(result[c].value, ThrownText)
      /\ Includes(result[c].value, BlockAt(data[c], path).type)


\* C3: processBlock on a block whose type has no registered transformer
\* returns the empty string, raises nothing, adds nothing to any collector
\* and leaves the engine context as it is (a step that starts process()
\* changes the context by updateContext only).
C3_UnmappedBlockSkipped ==
  [][ \A c \in CallIds : \A path \in DOMAIN tasks'[c] :
        LET before == IF path \in DOMAIN tasks[c] THEN tasks[c][path].st ELSE "pending"
            after == tasks'[c][path]
        IN (/\ before = "pending"
            /\ after.st # "pending"
            /\ BlockAt(data'[c], path).type \notin DOMAIN blockTransformers)
           => /\ after.st = "done"
              /\ after.out = <<>>
              /\ after.err = <<>>
              /\ \A name \in DOMAIN variableDataCollector' :
                   \A i \in DOMAIN variableDataCollector'[name] :
                     variableDataCollector'[name][i].by # <<c>> \o path
              /\ context' = IF pc[c] = "idle" THEN updateContext(context, data'[c]) ELSE context
    ]_vars

\* a call has gone past a block of an unregistered type, while other blocks
\* of the document have transformers and have written to the collectors
C3_Witness ==
  \E c \in CallIds : \E path \in DOMAIN tasks[c] :
    /\ pc[c] = "done"
    /\ blockTransformers # <<>>
    /\ ~Registered(BlockAt(data[c], path))
    /\ tasks[c][path].st = "done"
    /\ Collected(variableDataCollector, content) # <<>>

Placeholder(id) == LBRACES \o id \o RBRACES
Identifiers == {content, imports, toc}

\* C4: every identifier that occurs in a {{{identifier}}} placeholder of the
\* active template is a registered variable: the variable registry holds a
\* collector keyed by exactly that identifier.
C4_PlaceholdersRegistered ==
  \A id \in Identifiers :
    Includes(template, Placeholder(id)) => id \in DOMAIN variableDataCollector

\* C5: setTemplate(t) fails for every t that lacks {{{content}}} or lacks
\* {{{imports}}}, and the failed call leaves the template, the registered
\* variables and the collectors as they were.
C5_InvalidTemplateRejected ==
  [][ (/\ lastSetTemplate' # lastSetTemplate
       /\ \/ ~Includes(lastSetTemplate'.arg, Placeholder(content))
          \/ ~Includes(lastSetTemplate'.arg, Placeholder(imports)))
      => /\ lastSetTemplate'.err # <<>>
         /\ template' = template
         /\ variableDataCollector' = variableDataCollector
         /\ variableResolvers' = variableResolvers
    ]_vars

\* setTemplate has failed on an engine whose template had been replaced
C5_Witness ==
  /\ lastSetTemplate.err # <<>>
  /\ template # DefaultTemplate
  /\ toc \notin DOMAIN variableDataCollector


\* C6 as stated: in every reachable state the imports collector contains
\* no two equal strings.
C6_NoDuplicateImports ==
  \A i, j \in DOMAIN ImportsList :
    i # j => ImportsList[i].text # ImportsList[j].text

\* C6, amended: addImports appends a value only if it is not already
\* present, so an entry appended by addImports (called directly or for a
\* transformer's declared imports) never repeats an earlier entry; the
\* collector holds no two equal strings as long as no block transformer
\* whose targetVariable is imports has appended its output to it.
C6_AddImportsNeverRepeats ==
  \A i, j \in DOMAIN ImportsList :
    (i < j /\ ImportsList[j].via = "addImports") => ImportsList[j].text # ImportsList[i].text

\* an import added by a direct call was declared again, twice, by the
\* transformer of a block that has been processed
C6_Witness ==
  /\ \E i \in DOMAIN ImportsList :
       ImportsList[i].text = ImageImport /\ ImportsList[i].by = Direct
  /\ \E c \in CallIds : \E path \in DOMAIN tasks[c] :
       tasks[c][path].st = "done" /\ tasks[c][path].tr = ImageTr

IsTop(by, c) == Len(by) = 2 /\ by[1] = c

\* C7: the fragments the top-level blocks of a call append to a collector
\* stand in it in the order of the blocks in the input, whenever their
\* transformers complete; when the loop of process() has ended, every
\* top-level block with a transformer has its output in its target collector.
C7_TopLevelOrder ==
  \A c \in CallIds :
    /\ \A name \in DOMAIN variableDataCollector :
         \A j, k \in DOMAIN variableDataCollector[name] :
           LET a == variableDataCollector[name][j].by
               b == variableDataCollector[name][k].by
           IN (j < k /\ IsTop(a, c) /\ IsTop(b, c)) => a[2] <= b[2]
    /\ pc[c] = "render" =>
         \A i \in TopIndices(data[c]) :
           LET t == tasks[c][<<i>>]
               target == IF t.tr.targetVariable # <<>> THEN t.tr.targetVariable ELSE content
           IN t.tr # NoTr =>
                \E k \in DOMAIN Collected(variableDataCollector, target) :
                  variableDataCollector[target][k] = Entry(t.out, <<c, i>>, "addToCollector")

\* a call has resolved with the fragments of two top-level blocks in content
C7_Witness ==
  \E c \in CallIds :
    /\ result[c].status = "resolved"
    /\ \E j, k \in DOMAIN Collected(variableDataCollector, content) :
         /\ j < k
         /\ IsTop(variableDataCollector[content][j].by, c)
         /\ IsTop(variableDataCollector[content][k].by, c)
         /\ variableDataCollector[content][j].by # variableDataCollector[content][k].by

\* the cascade written out for an item with three annotation entries
FlagStep(item, k, text, meta) ==
  IF item.annotations[k].value /\ item.annotations[k].name \in annotationTransformers
    THEN AnnotationTransform(item.annotations[k].name, text, meta)
    ELSE text
ExpectedSpan(item, meta) ==
  LET flagged == FlagStep(item, 3, FlagStep(item, 2, FlagStep(item, 1, item.plain_text, meta), meta), meta)
  IN IF item.href # <<>> THEN LinkTransform(flagged, item.href, NoMeta) ELSE flagged
RECURSIVE ExpectedText(_, _)
ExpectedText(richText, meta) ==
  IF richText = <<>> THEN <<>>
  ELSE ExpectedSpan(Head(richText), meta) \o ExpectedText(Tail(richText), meta)

\* C8: processRichText applies the registered transformers of a span's
\* active flags in the order the flags are declared on the span, each on the
\* output of the one before, then the link transformer if the span has a
\* link, and concatenates the spans in order without a separator: bold,
\* strikethrough and a link give link(strikethrough(bold(text))), bold,
\* italic and a link give link(italic(bold(text))).
C8_RichTextCascade ==
  \A c \in CallIds : \A path \in DOMAIN tasks[c] :
    LET t == tasks[c][path]
        richText == BlockAt(data[c], path).rich_text
    IN (t.st \in {"running", "done"} /\ t.tr.kind = "text" /\ t.err = <<>>) =>
         /\ t.out = ExpectedText(richText, t.meta)
         /\ (/\ richText = <<SpanHello>>
             /\ {"bold", "strikethrough", "link"} \subseteq annotationTransformers
             /\ ~IsHtml(t.meta))
            => t.out = <<"[","~","~","*","*","H","e","l","l","o","*","*","~","~","]","(","u",")">>
         /\ (/\ richText = <<SpanRev, SpanLinked>>
             /\ AnnotationNames \subseteq annotationTransformers
             /\ IsHtml(t.meta))
            => t.out = <<"<","s","t","r","o","n","g",">","<","s","t","r","i","k","e",">","x","<","/","s","t","r","i","k","e",">","<","/","s","t","r","o","n","g",">","[","<","i",">","<","s","t","r","o","n","g",">","y","<","/","s","t","r","o","n","g",">","<","/","i",">","]","(","u",")">>

\* both written-out cases have been processed
C8_Witness ==
  /\ \E c \in CallIds : \E path \in DOMAIN tasks[c] :
       tasks[c][path].st = "done" /\ tasks[c][path].out = <<"[","~","~","*","*","H","e","l","l","o","*","*","~","~","]","(","u",")">>
  /\ \E c \in CallIds : \E path \in DOMAIN tasks[c] :
       /\ tasks[c][path].st = "done"
       /\ tasks[c][path].out = <<"<","s","t","r","o","n","g",">","<","s","t","r","i","k","e",">","x","<","/","s","t","r","i","k","e",">","<","/","s","t","r","o","n","g",">","[","<","i",">","<","s","t","r","o","n","g",">","y","<","/","s","t","r","o","n","g",">","<","/","i",">","]","(","u",")">>

HasLink(richText) == \E i \in DOMAIN richText : richText[i].href # <<>>

\* C9: when a span carries a link and no transformer is registered under
\* link, processRichText fails (the block is never processed with the link
\* step skipped), and the process() call the block belongs to does not
\* resolve: it rejects with that error.
C9_MissingLinkTransformerFails ==
  \A c \in CallIds : \A path \in DOMAIN tasks[c] :
    LET t == tasks[c][path]
    IN (/\ t.st # "pending"
        /\ t.tr.kind \in {"text", "children"}
        /\ HasLink(BlockAt(data[c], path).rich_text)
        /\ "link" \notin annotationTransformers)
       => /\ t.st # "done"
          /\ Includes(t.err, LinkTypeError)
          /\ result[c].status # "resolved"
          /\ (t.st = "failed" /\ Len(path) = 1) =>
               /\ result[c].status = "rejected"
               /\ Includes(result[c].value, LinkTypeError)

\* a call has rejected with the error of the missing link transformer
C9_Witness ==
  \E c \in CallIds :
    /\ result[c].status = "rejected"
    /\ Includes(result[c].value, LinkTypeError)
    /\ "bold" \in annotationTransformers

Resolves(c) == result[c].status # "resolved" /\ result'[c].status = "resolved"

\* C10: a call that resolves has processed all its top-level blocks and
\* rendered the template; the record it produces is its input with content
\* replaced by the rendered template; with a next stage, that record is
\* handed to the next stage once and the next stage's result is returned,
\* without one the record itself is returned; the next stage is invoked at
\* no other moment.
C10_ResultAndNextStage ==
  [][ /\ \A c \in CallIds : Resolves(c) =>
           LET rendered == renderTemplate(template, variableDataCollector,
                                          variableResolvers, context)
               record == [pageId |-> data[c].pageId,
                          blockTree |-> data[c].blockTree,
                          metadata |-> data[c].metadata,
                          content |-> rendered.text]
           IN /\ pc[c] = "render"
              /\ rendered.err = <<>>
              /\ \A i \in TopIndices(data[c]) : tasks[c][<<i>>].st = "done"
              /\ IF next
                   THEN nextLog' = Append(nextLog, record) /\ result'[c].value = NextProcess(record)
                   ELSE nextLog' = nextLog /\ result'[c].value = record
      /\ nextLog' # nextLog => \E c \in CallIds : Resolves(c)
    ]_vars

\* with a next stage registered, every call has resolved with the next
\* stage's result for the record rendered from its own blocks
C10_Witness ==
  /\ next
  /\ Len(nextLog) = NCalls
  /\ \A c \in CallIds :
       /\ result[c].status = "resolved"
       /\ result[c].value = NextProcess(nextLog[c])
       /\ nextLog[c].content # <<>>

FailsNow(c, path) ==
  /\ path \in DOMAIN tasks'[c]
  /\ tasks'[c][path].st = "failed"
  /\ (path \in DOMAIN tasks[c] => tasks[c][path].st # "failed")
Rejected(r, message) == r.status = "rejected" /\ r.value = <<"R","e","n","d","e","r","e","r"," ","f","a","i","l","e","d",":"," ">> \o message

\* C11: when a block transformer or a variable resolver fails during
\* process(), the call rejects with the message "Renderer failed: " followed
\* by the message of the error raised (which holds the text the transformer
\* or resolver threw), it produces no record, the next stage is not invoked,
\* and the rejection is final.
C11_FailureRejectsWithPrefix ==
  [][ \A c \in CallIds :
        /\ \A i \in TopIndices(data'[c]) :
             FailsNow(c, <<i>>) =>
               /\ Rejected(result'[c], tasks'[c][<<i>>].err)
               /\ tasks'[c][<<i>>].tr.kind = "throw" => Includes(result'[c].value, ThrownText)
               /\ nextLog' = nextLog
        /\ (/\ pc[c] = "render"
            /\ pc'[c] # "render"
            /\ \E name \in DOMAIN variableDataCollector :
                 ResolverOf(variableResolvers, name) = "failing")
           => /\ Rejected(result'[c], ResolverFailure)
              /\ nextLog' = nextLog
        /\ result[c].status = "rejected" => result'[c] = result[c]
    ]_vars

\* with a next stage set, one call has been rejected for a block transformer
\* that threw, and the next stage has been invoked for the other call only
C11_Witness ==
  /\ next
  /\ \E c \in CallIds : Rejected(result[c], <<"F","a","i","l","e","d"," ","t","o"," ","p","r","o","c","e","s","s"," ","b","l","o","c","k",":"," ">> \o ThrownText)
  /\ Len(nextLog) = 1
  /\ \E c \in CallIds : result[c].status = "resolved" /\ result[c].value = NextProcess(nextLog[1])

\* C12: process(data) merges data.metadata into the engine metadata: every
\* key of data.metadata gets the incoming value, every other key the engine
\* had (from addMetadata or an earlier call) keeps its value, and no later
\* step of the call changes the metadata.
C12_MetadataMerged ==
  [][ /\ \A c \in CallIds : (pc[c] = "idle" /\ pc'[c] # "idle") =>
           /\ DOMAIN context'.metadata = DOMAIN context.metadata \cup DOMAIN data'[c].metadata
           /\ \A k \in DOMAIN data'[c].metadata :
                context'.metadata[k] = data'[c].metadata[k]
           /\ \A k \in DOMAIN context.metadata \ DOMAIN data'[c].metadata :
                context'.metadata[k] = context.metadata[k]
      /\ (\A c \in CallIds : pc[c] = "idle" <=> pc'[c] = "idle") /\ configured' = configured
           => context' = context
    ]_vars

\* a second call has overwritten a key set by addMetadata and kept the key
\* of the first call that its own metadata does not have
C12_Witness ==
  /\ \A c \in CallIds : pc[c] = "done"
  /\ data[1].metadata = [html |-> TRUE, nested |-> FALSE]
  /\ data[2].metadata = [site |-> 2]
  /\ configured > 0
  /\ context.metadata = [html |-> TRUE, nested |-> FALSE, site |-> 2]

RECURSIVE Lines(_)
\* the fragments one per line: a newline between each two, none at the ends
Lines(list) ==
  IF Len(list) = 0 THEN <<>>
  ELSE IF Len(list) = 1 THEN list[1]
  ELSE Lines(SubSeq(list, 1, Len(list) - 1)) \o <<"\n">> \o list[Len(list)]
Fragments(name) ==
  IF name \in DOMAIN variableDataCollector
    THEN [i \in DOMAIN variableDataCollector[name] |-> variableDataCollector[name][i].text]
    ELSE <<>>
\* the text renderTemplate returned in the step in which a call resolves
RenderedNow(c) == IF next THEN nextLog'[Len(nextLog')].content ELSE result'[c].value.content
TocTemplate == <<"{","{","{","t","o","c","}","}","}","\n","{","{","{","i","m","p","o","r","t","s","}","}","}","\n","{","{","{","c","o","n","t","e","n","t","}","}","}">>
ConstructorTemplate == <<"{","{","{","i","m","p","o","r","t","s","}","}","}","{","{","{","c","o","n","t","e","n","t","}","}","}","{","{","{","c","o","n","s","t","r","u","c","t","o","r","}","}","}">>

\* C13: in the text a call renders, the placeholder of a registered variable
\* without a custom resolver is replaced by the fragments of its collector
\* joined with single newlines in the order they were appended: with
\* imports <<import Img>> and content <<[~~**Hello**~~](u), <Img/>>> the
\* built-in template renders "import Img\n[~~**Hello**~~](u)\n<Img/>".
C13_DefaultResolverJoins ==
  [][ \A c \in CallIds :
        (Resolves(c) /\ ResolverOf(variableResolvers, toc) = DefaultResolver) =>
          LET text == RenderedNow(c)
              body == Lines(Fragments(imports)) \o Lines(Fragments(content))
          IN /\ template = DefaultTemplate =>
                  text = Lines(Fragments(imports)) \o <<"\n">> \o Lines(Fragments(content))
             /\ template = TocTemplate =>
                  text = Lines(Fragments(toc)) \o <<"\n">> \o Lines(Fragments(imports))
                           \o <<"\n">> \o Lines(Fragments(content))
             /\ template = ConstructorTemplate => SubSeq(text, 1, Len(body)) = body
             /\ (/\ template = DefaultTemplate
                 /\ Fragments(imports) = <<<<"i","m","p","o","r","t"," ","I","m","g">>>>
                 /\ Fragments(content) = <<<<"[","~","~","*","*","H","e","l","l","o","*","*","~","~","]","(","u",")">>, <<"<","I","m","g","/",">">>>>)
                => text = <<"i","m","p","o","r","t"," ","I","m","g","\n","[","~","~","*","*","H","e","l","l","o","*","*","~","~","]","(","u",")","\n","<","I","m","g","/",">">>
    ]_vars

\* a call has rendered two content fragments and an import with the
\* built-in template
C13_Witness ==
  \E c \in CallIds :
    /\ result[c].status = "resolved"
    /\ ~next
    /\ template = DefaultTemplate
    /\ result[c].value.content = <<"i","m","p","o","r","t"," ","I","m","g","\n","[","~","~","*","*","H","e","l","l","o","*","*","~","~","]","(","u",")","\n","<","I","m","g","/",">">>

\* the resolved value of a variable; a name that is not registered has none
ResolvedValue(name) ==
  IF name \notin DOMAIN variableDataCollector THEN <<>>
  ELSE IF ResolverOf(variableResolvers, name) = "custom" THEN <<"<">> \o context.pageId \o <<">">>
  ELSE Lines(Fragments(name))

\* C19: renderTemplate replaces every {{{name}}} of the template by the
\* resolved value of name, and by the empty string when name has no
\* resolved value, in one pass: placeholder text inside a resolved value
\* stays as it is.
C19_SinglePassSubstitution ==
  [][ \A c \in CallIds : Resolves(c) =>
        LET text == RenderedNow(c)
        IN /\ template = DefaultTemplate =>
                text = ResolvedValue(imports) \o <<"\n">> \o ResolvedValue(content)
           /\ template = TocTemplate =>
                text = ResolvedValue(toc) \o <<"\n">> \o ResolvedValue(imports)
                         \o <<"\n">> \o ResolvedValue(content)
           /\ template = ConstructorTemplate =>
                text = ResolvedValue(imports) \o ResolvedValue(content)
                         \o ResolvedValue(<<"c","o","n","s","t","r","u","c","t","o","r">>)
    ]_vars

\* C14: under SpecOverlap, a call c that starts while a call b is suspended
\* in its block loop empties every collector but imports and replaces the
\* context, while b goes on with the blocks it has left: the fragments b had
\* collected are gone from what b will render, and what c appends is in it.
C14_OverlapCorrupts ==
  [][ \A b, c \in CallIds :
        (pc[c] = "idle" /\ pc'[c] # "idle" /\ pc[b] = "blocks") =>
          /\ pc'[b] = "blocks"
          /\ tasks'[b] = tasks[b]
          /\ \A name \in OtherCollectors :
               \A i \in DOMAIN variableDataCollector'[name] :
                 variableDataCollector'[name][i].by[1] # b
          /\ context'.pageId = data'[c].pageId
    ]_vars

\* a call has returned a record whose content lacks the fragment of one of
\* its own top-level blocks and holds a fragment of a block of the other call
C14_Witness ==
  \E b, c \in CallIds :
    /\ b # c
    /\ ~next
    /\ result[b].status = "resolved"
    /\ \E i \in TopIndices(data[b]) :
         /\ tasks[b][<<i>>].st = "done"
         /\ tasks[b][<<i>>].out # <<>>
         /\ ~Includes(result[b].value.content, tasks[b][<<i>>].out)
    /\ \E j \in TopIndices(data[c]) :
         /\ tasks[c][<<j>>].st = "done"
         /\ tasks[c][<<j>>].out # <<>>
         /\ Includes(result[b].value.content, tasks[c][<<j>>].out)
         /\ \A i \in TopIndices(data[b]) : tasks[b][<<i>>].out # tasks[c][<<j>>].out

KidOutputs(c, i) ==
  [j \in DOMAIN BlockAt(data[c], <<i>>).children |-> tasks[c][<<i, j>>].out]
IsNonEmpty(text) == text # <<>>

\* C15: processChildren calls processBlock for every sibling before it
\* awaits any of them, and returns the non-empty outputs joined with single
\* newlines in the input order of the blocks, whatever the order in which
\* the siblings complete; empty outputs are dropped.
C15_ChildrenJoinedInOrder ==
  \A c \in CallIds : \A i \in TopIndices(data[c]) :
    LET t == tasks[c][<<i>>]
        kids == ChildPaths(data[c], i)
    IN /\ (\E k \in kids : tasks[c][k].st # "pending") =>
            (\A k \in kids : tasks[c][k].st # "pending")
       /\ (t.tr.kind = "children" /\ t.err = <<>> /\ t.st # "pending") =>
            (\A k \in kids : tasks[c][k].st # "pending")
       /\ (t.tr.kind = "children" /\ t.st = "done") =>
            /\ t.out = ExpectedText(BlockAt(data[c], <<i>>).rich_text, t.meta)
                         \o <<"\n">> \o Lines(SelectSeq(KidOutputs(c, i), IsNonEmpty))
            /\ (AnnotationNames \subseteq annotationTransformers /\ data[c] = DocB) =>
                 t.out = <<"<","s","t","r","o","n","g",">","T","<","/","s","t","r","o","n","g",">","\n","<","s","t","r","o","n","g",">","<","s","t","r","i","k","e",">","x","<","/","s","t","r","i","k","e",">","<","/","s","t","r","o","n","g",">","[","<","i",">","<","s","t","r","o","n","g",">","y","<","/","s","t","r","o","n","g",">","<","/","i",">","]","(","u",")","\n","<","I","m","g","/",">">>

\* a block has returned the joined outputs of its three children, of which
\* the second completed before the first and the third had no transformer
C15_Witness ==
  \E c \in CallIds :
    /\ data[c] = DocB
    /\ tasks[c][<<1>>].st = "done"
    /\ tasks[c][<<1>>].out = <<"<","s","t","r","o","n","g",">","T","<","/","s","t","r","o","n","g",">","\n","<","s","t","r","o","n","g",">","<","s","t","r","i","k","e",">","x","<","/","s","t","r","i","k","e",">","<","/","s","t","r","o","n","g",">","[","<","i",">","<","s","t","r","o","n","g",">","y","<","/","s","t","r","o","n","g",">","<","/","i",">","]","(","u",")","\n","<","I","m","g","/",">">>
    /\ tasks[c][<<1, 3>>].tr = NoTr
    /\ \E j, k \in DOMAIN Collected(variableDataCollector, content) :
         /\ j < k
         /\ variableDataCollector[content][j].by = <<c, 1, 2>>
         /\ variableDataCollector[content][k].by = <<c, 1, 1>>

\* the positions of a collector at which a given processBlock call of call c
\* has appended its output
Appended(name, by) ==
  { k \in DOMAIN variableDataCollector[name] :
      /\ variableDataCollector[name][k].by = by
      /\ variableDataCollector[name][k].via = "addToCollector" }
TargetOf(transformer) ==
  IF transformer.targetVariable # <<>> THEN transformer.targetVariable ELSE content

\* C16: when a call has processed its blocks, each collector holds exactly
\* one fragment for each top-level block whose transformer targets it, and
\* no fragment of a block that was processed as a child: a child's output
\* reaches the rendered text only inside its parent's output.
C16_ChildrenOnlyThroughParent ==
  \A c \in CallIds : pc[c] = "render" =>
    \A name \in DOMAIN variableDataCollector :
      /\ \A i \in TopIndices(data[c]) :
           LET t == tasks[c][<<i>>]
           IN Cardinality(Appended(name, <<c, i>>)) =
                IF t.tr # NoTr /\ TargetOf(t.tr) = name THEN 1 ELSE 0
      /\ \A p \in Paths(data[c]) : Len(p) = 2 => Appended(name, <<c>> \o p) = {}

\* C17: the fragments that sibling blocks processed through processChildren
\* append to a collector stand in it in the input order of the siblings.
C17_SiblingOrderInCollector ==
  \A c \in CallIds : \A name \in DOMAIN variableDataCollector :
    \A j, k \in DOMAIN variableDataCollector[name] :
      LET a == variableDataCollector[name][j].by
          b == variableDataCollector[name][k].by
      IN (j < k /\ Len(a) = 3 /\ Len(b) = 3 /\ a[1] = c /\ b[1] = c /\ a[2] = b[2])
           => a[3] <= b[3]

\* C18: registering block transformers leaves the collectors as they are,
\* and only a processBlock call whose transform has returned has entries in
\* a collector: a call that is still suspended in its transform or whose
\* transform raised has added neither an import nor a fragment.
C18_ImportsOnlyOnSuccess ==
  [][ /\ blockTransformers' # blockTransformers =>
           variableDataCollector' = variableDataCollector
      /\ \A c \in CallIds : \A path \in DOMAIN tasks'[c] :
           tasks'[c][path].st # "done" =>
             \A name \in DOMAIN variableDataCollector' :
               \A k \in DOMAIN variableDataCollector'[name] :
                 variableDataCollector'[name][k].by # <<c>> \o path
    ]_vars

\* the transform of a block whose transformer declares an import has
\* raised, and the imports collector is empty
C18_Witness ==
  /\ ImportsList = <<>>
  /\ \E c \in CallIds : \E path \in DOMAIN tasks[c] :
       /\ tasks[c][path].st = "failed"
       /\ tasks[c][path].tr = ThrowTr
       /\ Len(ThrowTr.imports) > 0

\* C20: the context processBlock(block, metadata) hands to the transformer
\* has the engine's metadata overlaid with the caller's metadata (the
\* caller's value on a common key, the engine's other keys kept) and the
\* block itself (a text transformer returns the rich text of that block);
\* the engine's own context is not changed by it: the context changes only
\* by updateContext at the start of a call and by addMetadata.
C20_BlockContextOverlay ==
  [][ /\ \A c \in CallIds : \A path \in DOMAIN tasks'[c] :
           LET before == IF path \in DOMAIN tasks[c] THEN tasks[c][path].st ELSE "pending"
               t == tasks'[c][path]
               caller == IF Len(path) = 1 THEN NoMeta ELSE [nested |-> TRUE]
           IN (before = "pending" /\ t.st # "pending" /\ t.tr # NoTr) =>
                /\ DOMAIN t.meta = DOMAIN context'.metadata \cup DOMAIN caller
                /\ \A k \in DOMAIN caller : t.meta[k] = caller[k]
                /\ \A k \in DOMAIN context'.metadata \ DOMAIN caller :
                     t.meta[k] = context'.metadata[k]
                /\ (t.tr.kind = "text" /\ t.err = <<>>) =>
                     t.out = ExpectedText(BlockAt(data'[c], path).rich_text, t.meta)
                /\ context' = IF pc[c] = "idle" THEN updateContext(context, data'[c])
                              ELSE context
      /\ ((\A c \in CallIds : pc[c] = "idle" <=> pc'[c] = "idle") /\ configured' = configured)
           => context' = context
    ]_vars

\* a child block has been transformed with the caller's value for a key on
\* which the engine's metadata has another value, and the engine's metadata
\* still has its own
C20_Witness ==
  \E c \in CallIds : \E path \in DOMAIN tasks[c] :
    /\ Len(path) = 2
    /\ tasks[c][path].st = "done"
    /\ tasks[c][path].tr # NoTr
    /\ tasks[c][path].meta = [html |-> TRUE, nested |-> TRUE]
    /\ context.metadata = [html |-> TRUE, nested |-> FALSE]

\* C21 as stated: process() starts the transformers of all top-level blocks
\* before it awaits any of them: once one top-level block has been entered,
\* every top-level block that has a transformer has been entered.
C21_TopLevelFanOut ==
  \A c \in CallIds :
    (\E i \in TopIndices(data[c]) : tasks[c][<<i>>].st # "pending") =>
      (\A i \in TopIndices(data[c]) :
         Registered(BlockAt(data[c], <<i>>)) => tasks[c][<<i>>].st # "pending")

\* C21, amended: process() handles the top-level blocks one at a time in
\* input order: processBlock is called for a block only when the
\* processBlock call of every earlier block has returned, so at most one
\* top-level block is in its transform, and no block after one that
\* failed is started.
C21_TopLevelSequential ==
  \A c \in CallIds :
    /\ \A i, j \in TopIndices(data[c]) :
         (i < j /\ tasks[c][<<j>>].st # "pending") => tasks[c][<<i>>].st = "done"
    /\ \A i, j \in TopIndices(data[c]) :
         (tasks[c][<<i>>].st = "running" /\ tasks[c][<<j>>].st = "running") => i = j

\* the first top-level block of a call is in its transform and the second,
\* which has a transformer, has not been started
C21_Witness ==
  \E c \in CallIds :
    /\ pc[c] = "blocks"
    /\ tasks[c][<<1>>].st = "running"
    /\ tasks[c][<<2>>].st = "pending"
    /\ Registered(BlockAt(data[c], <<2>>))

=============================================================================
